---------------------------- MODULE Spec2Model ----------------------------
(***************************************************************************)
(* Quota-Activator: configuration loading and validation, trigger-time     *)
(* calculation, the scheduling loop and the platform's retrying Trigger.   *)
(*                                                                         *)
(* Conventions                                                             *)
(*  - an instant (time.Time) is an integer: seconds since 1970-01-01T00:00Z *)
(*    (every instant of the program has zero nanoseconds except time.Now,   *)
(*    which the model reads at whole seconds);                             *)
(*  - the process's zone (time.Local) is a fixed offset tz, seconds east   *)
(*    of UTC; zones with daylight-saving transitions are not modelled;     *)
(*  - a Go string is a sequence of one-character strings, so that parsing  *)
(*    (fmt.Sscanf) and formatting (fmt.Sprintf) are computed, not assumed. *)
(***************************************************************************)
EXTENDS Integers, Sequences, FiniteSets, TLC

VARIABLES
    raw,         \* the configuration as written in config.yaml
    cfg,         \* *config.Config after Load (defaults applied)
    tz,          \* offset of time.Local, seconds east of UTC
    clock,       \* time.Now()
    pc,          \* position of main / Scheduler.Start
    validateErr, \* the error main got from Validate, NewPlatform or ValidateConfig
    maxRetries,  \* AnthropicPlatform.maxRetries
    nextTrigger, \* Start's local variable nextTrigger
    calcNow,     \* the `now` argument of the latest NextTrigger call
    cancelled,   \* ctx.Done() is closed
    startErr,    \* what Start returned
    exitPoint,   \* where Start returned: the first select ("top"), the second
                 \* as it was entered ("poll") or while blocked in it ("wait")
    tpc,         \* position inside AnthropicPlatform.Trigger
    attempt,     \* Trigger's loop variable
    inFlight,    \* number of Trigger invocations that have not returned
    trigErr,     \* what the latest Trigger invocation returned
    fired,       \* history: the trigger instants the action was invoked for
    slept,       \* history: the backoff delays of the current Trigger invocation
    tried,       \* history: what doTrigger returned, current Trigger invocation
    probe        \* arguments and result of a pure function under test

vars == <<raw, cfg, tz, clock, pc, validateErr, maxRetries, nextTrigger, calcNow,
          cancelled, startErr, exitPoint, tpc, attempt, inFlight, trigErr,
          fired, slept, tried, probe>>

(***************************************************************************)
(* Strings                                                                 *)
(***************************************************************************)
Digits == <<"0", "1", "2", "3", "4", "5", "6", "7", "8", "9">>

IsDigit(c) == \E d \in 1..10 : Digits[d] = c

DigitVal(c) == (CHOOSE d \in 1..10 : Digits[d] = c) - 1

\* fmt: isSpace (the table "space"), the newline U+000A aside: U+0009,
\* U+000B (written as the character itself), U+000C, U+000D, U+0020, U+0085
\* and U+00A0 (as the characters themselves), then the runes above U+00FF,
\* which a string of this module cannot hold and which are written by their
\* code point: U+1680, U+2000..U+200A, U+2028, U+2029, U+202F, U+205F, U+3000.
\* An element of a text is one rune.
SpaceRunes ==
    {"\t", "", "\f", "\r", " ", "", " ",
     "U+1680", "U+2000", "U+2001", "U+2002", "U+2003", "U+2004", "U+2005",
     "U+2006", "U+2007", "U+2008", "U+2009", "U+200A", "U+2028", "U+2029",
     "U+202F", "U+205F", "U+3000"}

\* fmt: (*ss).SkipSpace with nlIsSpace false: space is skipped; at a newline
\* (also after "\r") it raises "unexpected newline", and here it stops, so
\* that the scan of the number that follows fails
RECURSIVE SkipSpace(_, _)
SkipSpace(s, p) ==
    IF p <= Len(s) /\ s[p] \in SpaceRunes THEN SkipSpace(s, p + 1) ELSE p

\* fmt: (*ss).scanNumber: the position after the run of decimal digits at p
RECURSIVE DigitsEnd(_, _)
DigitsEnd(s, p) ==
    IF p <= Len(s) /\ IsDigit(s[p]) THEN DigitsEnd(s, p + 1) ELSE p

\* strconv.ParseInt of the digits s[p..q-1], base 10
RECURSIVE DecimalValue(_, _, _)
DecimalValue(s, p, q) ==
    IF q <= p THEN 0 ELSE DecimalValue(s, p, q - 1) * 10 + DigitVal(s[q - 1])

\* the position of the first digit of s[r..e-1] that is not a leading zero
RECURSIVE FirstSignificant(_, _, _)
FirstSignificant(s, r, e) ==
    IF r < e /\ s[r] = "0" THEN FirstSignificant(s, r + 1, e) ELSE r

\* the digits of 1<<63 - 1 and of 1<<63, the bounds of strconv.ParseInt(, 10, 64)
MaxInt64Digits ==
    <<"9", "2", "2", "3", "3", "7", "2", "0", "3", "6",
      "8", "5", "4", "7", "7", "5", "8", "0", "7">>

MinInt64Digits ==
    <<"9", "2", "2", "3", "3", "7", "2", "0", "3", "6",
      "8", "5", "4", "7", "7", "5", "8", "0", "8">>

\* the digits from s[f] on, as many as limit has, are a number not above limit
\* (compared from digit k on)
RECURSIVE DigitsAtMost(_, _, _, _)
DigitsAtMost(s, f, limit, k) ==
    IF k > Len(limit) THEN TRUE
    ELSE IF DigitVal(s[f + k - 1]) < DigitVal(limit[k]) THEN TRUE
    ELSE IF DigitVal(s[f + k - 1]) > DigitVal(limit[k]) THEN FALSE
    ELSE DigitsAtMost(s, f, limit, k + 1)

\* strconv.ParseInt finds the token with significant digits s[f..e-1] in range
FitsInt64(s, f, e, negative) ==
    \/ e - f < Len(MaxInt64Digits)
    \/ /\ e - f = Len(MaxInt64Digits)
       /\ DigitsAtMost(s, f, IF negative THEN MinInt64Digits ELSE MaxInt64Digits, 1)

\* fmt: (*ss).scanNumber and the conversion of its token, the digits s[r..e-1]:
\* "expected integer" without a digit, strconv's "value out of range" for a
\* token outside int64
ScanNumber(s, r, e, negative) ==
    IF e = r \/ ~FitsInt64(s, FirstSignificant(s, r, e), e, negative)
    THEN [ok |-> FALSE, val |-> 0, next |-> r]
    ELSE [ok   |-> TRUE,
          val  |-> (IF negative THEN 0 - 1 ELSE 1) * DecimalValue(s, r, e),
          next |-> e]

\* fmt: (*ss).scanInt after SkipSpace: s.accept(sign), then the number
ScanSigned(s, q) ==
    IF q <= Len(s) /\ s[q] \in {"+", "-"}
    THEN ScanNumber(s, q + 1, DigitsEnd(s, q + 1), s[q] = "-")
    ELSE ScanNumber(s, q, DigitsEnd(s, q), FALSE)

\* fmt: (*ss).scanInt for the verb %d: spaces, an optional sign, digits
ScanInt(s, p) == ScanSigned(s, SkipSpace(s, p))

\* Sscanf once the first number a is scanned and the ':' matched: b is the second
SscanfMin(a, b) ==
    IF ~b.ok
    THEN [n |-> 1, hour |-> a.val, min |-> 0]
    ELSE [n |-> 2, hour |-> a.val, min |-> b.val]

\* Sscanf after the first %d (a): the literal ':' and the second %d
SscanfHour(s, a) ==
    IF ~a.ok
    THEN [n |-> 0, hour |-> 0, min |-> 0]
    ELSE IF a.next > Len(s) \/ s[a.next] # ":"
    THEN [n |-> 1, hour |-> a.val, min |-> 0]
    ELSE SscanfMin(a, ScanInt(s, a.next + 1))

\* fmt.Sscanf(s, "%d:%d", &hour, &min): n is the number of items stored; err is
\* nil exactly when n = 2. Input left over after the second number is ignored.
Sscanf(s) == SscanfHour(s, ScanInt(s, 1))

\* len(strings.Split(t, ":"))
SplitParts(s) == Cardinality({p \in 1..Len(s) : s[p] = ":"}) + 1

\* fmt.Sprintf("%02d", n) for 0 <= n <= 99
TwoDigits(n) == <<Digits[(n \div 10) + 1], Digits[(n % 10) + 1]>>

(***************************************************************************)
(* time.Time                                                               *)
(***************************************************************************)
SecondsPerDay == 24 * 3600

\* t.Hour(), t.Minute(), t.Second() of an instant in a zone at offset off
ClockHour(t, off)   == ((t + off) % SecondsPerDay) \div 3600
ClockMinute(t, off) == (((t + off) % SecondsPerDay) % 3600) \div 60
ClockSecond(t, off) == ((t + off) % SecondsPerDay) % 60

\* the calendar date (Year, Month, Day) of t in the zone, as a day number
CivilDay(t, off) == (t + off) \div SecondsPerDay

\* time.Date(y, m, d, hour, min, 0, 0, loc): out-of-range fields normalise
DateAt(day, hour, min, off) == day * SecondsPerDay + hour * 3600 + min * 60 - off

\* t.Truncate(24 * time.Hour): rounds the absolute time down, so to 00:00 UTC
Truncate24h(t) == t - (t % SecondsPerDay)

(***************************************************************************)
(* config/validator.go                                                     *)
(***************************************************************************)
Nil == [kind |-> "nil"]

\* the first error of two checks made one after the other
OrElse(e1, e2) == IF e1 # Nil THEN e1 ELSE e2

\* isValidTimeFormat: the scan succeeded and the fields are in range
ScannedInRange(r) ==
    r.n = 2 /\ r.hour >= 0 /\ r.hour <= 23 /\ r.min >= 0 /\ r.min <= 59

\* isValidTimeFormat
isValidTimeFormat(t) == SplitParts(t) = 2 /\ ScannedInRange(Sscanf(t))

\* parseTime: the scan error is dropped, what was scanned is returned
Scanned(r) == [hour |-> r.hour, min |-> r.min]

parseTime(t) == Scanned(Sscanf(t))

\* timeOfDay.toTime: time.Date(2000, 1, 1, hour, min, 0, 0, time.UTC)
toTime(tod) == DateAt(10957, tod.hour, tod.min, 0)

\* formatTime with the format "%d:%02d": the hour is not padded
formatTimeHourUnpadded(t) ==
    (IF ClockHour(t, 0) < 10 THEN <<Digits[ClockHour(t, 0) + 1]>>
     ELSE TwoDigits(ClockHour(t, 0)))
    \o <<":">> \o TwoDigits(ClockMinute(t, 0))

\* formatTime
formatTime(t) == TwoDigits(ClockHour(t, 0)) \o <<":">> \o TwoDigits(ClockMinute(t, 0))

\* t.Hour()*3600 + t.Minute()*60 + t.Second() of a UTC time
SecondsOfDay(t) == ClockHour(t, 0) * 3600 + ClockMinute(t, 0) * 60 + ClockSecond(t, 0)

\* InRangeSec with the start of the range excluded (> for >=)
InRangeSecOpenStart(tSec, startSec, endSec) ==
    IF startSec < endSec
    THEN tSec > startSec /\ tSec < endSec
    ELSE tSec > startSec \/ tSec < endSec

\* isTimeInRange, on the three seconds-of-day values
InRangeSec(tSec, startSec, endSec) ==
    IF startSec < endSec
    THEN tSec >= startSec /\ tSec < endSec
    ELSE tSec >= startSec \/ tSec < endSec

\* isTimeInRange
isTimeInRange(t, start, end) ==
    InRangeSec(SecondsOfDay(t), SecondsOfDay(start), SecondsOfDay(end))

\* the less function of the validator's sort.Slice
TimeLess(a, b) == IF a.hour # b.hour THEN a.hour < b.hour ELSE a.min < b.min

\* sort.Slice on fewer than 13 elements is an insertion sort: each element is
\* moved towards the front while it is less than its predecessor
RECURSIVE InsertTime(_, _)
InsertTime(s, x) ==
    IF s = <<>> \/ ~TimeLess(x, s[Len(s)])
    THEN Append(s, x)
    ELSE Append(InsertTime(SubSeq(s, 1, Len(s) - 1), x), s[Len(s)])

RECURSIVE SortTimes(_)
SortTimes(s) ==
    IF s = <<>> THEN <<>>
    ELSE InsertTime(SortTimes(SubSeq(s, 1, Len(s) - 1)), s[Len(s)])

\* the loop that fills parsedTimes: parsedTimes[i] = parseTime(targetTimes[i])
ParseAll(targetTimes) == [i \in 1..Len(targetTimes) |-> parseTime(targetTimes[i])]

\* validateTargetTimesConflict: parsedTimes, parsed and sorted
ParsedTimes(targetTimes) == SortTimes(ParseAll(targetTimes))

\* Memory, as far as slices go: arrays[a] is the backing array at address a. The
\* configuration's target list is a slice over the whole array at the address
\* TargetTimesArray, which yaml.Unmarshal allocated.
TargetTimesArray == 1

\* make([]T, n), or the appends onto a nil slice: a new backing array with
\* these contents, at the address after the ones in use
Allocate(arrays, contents) == Append(arrays, contents)

\* sort.Slice(x, less) for x a slice of timeOfDay over the array at address a:
\* the elements of that array are swapped into order
SortTimesAt(arrays, a) == [arrays EXCEPT ![a] = SortTimes(@)]

\* the target strings put in the order of their times
SortedTargets(targetTimes) ==
    [i \in 1..Len(targetTimes) |-> formatTime(toTime(ParsedTimes(targetTimes)[i]))]

\* validateTargetTimesConflict ordering the caller's slice as well as its copy:
\* the array at address a is written
ArraysAfterConflictCheckSortsArgument(arrays, a) ==
    [SortTimesAt(Allocate(arrays, ParseAll(arrays[a])), Len(arrays) + 1)
        EXCEPT ![a] = SortedTargets(@)]

\* memory after validateTargetTimesConflict(targetTimes, intervalHours), where
\* targetTimes is the slice over the array at address a: parsedTimes is made,
\* filled from targetTimes and sorted; nothing else is written
ArraysAfterConflictCheck(arrays, a) ==
    SortTimesAt(Allocate(arrays, ParseAll(arrays[a])), Len(arrays) + 1)

\* parsedTimes[i].toTime().Add(-interval), for every index of parsedTimes
TriggersOfDay(parsedTimes, interval) ==
    [i \in 1..Len(parsedTimes) |-> toTime(parsedTimes[i]) - interval]

\* the validator's loops with the inner one started at j = i + 1
PairsCheckedForward(n) == {p \in (1..n) \X (1..n) : p[1] < p[2]}

\* the index pairs (i, j) the validator's two loops test: all with i # j
PairsChecked(n) == {p \in (1..n) \X (1..n) : p[1] # p[2]}

\* the order in which the loops reach the pairs: i outer, j inner
PairBefore(p, q) == p[1] < q[1] \/ (p[1] = q[1] /\ p[2] <= q[2])

\* the pairs (i, j) for which the validator's test of targetTrigger against
\* [otherTrigger, quotaEnd) is true
ConflictingPairs(trigger, interval) ==
    {p \in PairsChecked(Len(trigger)) :
        isTimeInRange(trigger[p[1]], trigger[p[2]], trigger[p[2]] + interval)}

\* the error validateTargetTimesConflict returns for the pair p = (i, j)
ConflictError(targetTimes, intervalHours, trigger, p) ==
    [kind          |-> "conflict",
     first         |-> targetTimes[p[1]],
     second        |-> targetTimes[p[2]],
     firstTrigger  |-> formatTime(trigger[p[1]]),
     secondTrigger |-> formatTime(trigger[p[2]]),
     windowStart   |-> formatTime(trigger[p[2]]),
     windowEnd     |-> formatTime(trigger[p[2]] + intervalHours * 3600),
     hours         |-> intervalHours]

\* the return at the first pair the loops find in conflict, or nil
FirstConflict(targetTimes, intervalHours, trigger, hits) ==
    IF hits = {}
    THEN Nil
    ELSE ConflictError(targetTimes, intervalHours, trigger,
                       CHOOSE h \in hits : \A q \in hits : PairBefore(h, q))

\* validateTargetTimesConflict, once the trigger times of day are computed
ConflictAmong(targetTimes, intervalHours, trigger) ==
    FirstConflict(targetTimes, intervalHours, trigger,
                  ConflictingPairs(trigger, intervalHours * 3600))

\* validateTargetTimesConflict without the sort and with each target tested
\* against the next one of the list only
validateNextOnlyUnsorted(targetTimes, intervalHours) ==
    FirstConflict(targetTimes, intervalHours,
                  TriggersOfDay([i \in 1..Len(targetTimes) |-> parseTime(targetTimes[i])],
                                intervalHours * 3600),
                  {p \in ConflictingPairs(
                              TriggersOfDay([i \in 1..Len(targetTimes) |->
                                                parseTime(targetTimes[i])],
                                            intervalHours * 3600),
                              intervalHours * 3600) : p[2] = p[1] + 1})

\* validateTargetTimesConflict
validateTargetTimesConflict(targetTimes, intervalHours) ==
    ConflictAmong(targetTimes, intervalHours,
                  TriggersOfDay(ParsedTimes(targetTimes), intervalHours * 3600))

\* ValidateScheduler's loop over the target times: the first one that is not
\* in HH:MM format
FormatError(targetTimes, bad) ==
    IF bad = {}
    THEN Nil
    ELSE [kind |-> "bad_format",
          got  |-> targetTimes[CHOOSE i \in bad : \A k \in bad : i <= k]]

\* ValidateScheduler from the buffer checks on
BufferOrConflict(c) ==
    IF c.SafetyBufferSeconds < 0 THEN [kind |-> "buffer_negative"]
    ELSE IF c.SafetyBufferSeconds > 3600 THEN [kind |-> "buffer_too_large"]
    ELSE validateTargetTimesConflict(c.TargetTimes, c.IntervalHours)

\* ValidateScheduler without the test of len(c.Scheduler.TargetTimes) == 0
ValidateSchedulerAllowsEmpty(c) ==
    IF c.IntervalHours <= 0 THEN [kind |-> "interval_not_positive"]
    ELSE IF c.IntervalHours > 168 THEN [kind |-> "interval_too_large"]
    ELSE OrElse(FormatError(c.TargetTimes,
                            {i \in 1..Len(c.TargetTimes) :
                                ~isValidTimeFormat(c.TargetTimes[i])}),
                BufferOrConflict(c))

\* Config.ValidateScheduler
ValidateScheduler(c) ==
    IF c.IntervalHours <= 0 THEN [kind |-> "interval_not_positive"]
    ELSE IF c.IntervalHours > 168 THEN [kind |-> "interval_too_large"]
    ELSE IF Len(c.TargetTimes) = 0 THEN [kind |-> "target_times_required"]
    ELSE OrElse(FormatError(c.TargetTimes,
                            {i \in 1..Len(c.TargetTimes) :
                                ~isValidTimeFormat(c.TargetTimes[i])}),
                BufferOrConflict(c))

\* ValidateScheduler gets as far as the call of validateTargetTimesConflict
ReachesConflictCheck(c) ==
    /\ c.IntervalHours > 0
    /\ c.IntervalHours <= 168
    /\ Len(c.TargetTimes) # 0
    /\ \A i \in 1..Len(c.TargetTimes) : isValidTimeFormat(c.TargetTimes[i])
    /\ c.SafetyBufferSeconds >= 0
    /\ c.SafetyBufferSeconds <= 3600

\* memory after c.ValidateScheduler(): the fields of c are read, and the target
\* slice is handed to validateTargetTimesConflict if the checks before it pass
ArraysAfterValidateScheduler(c, arrays) ==
    IF ReachesConflictCheck(c)
    THEN ArraysAfterConflictCheck(arrays, TargetTimesArray)
    ELSE arrays

\* Config.ValidatePlatform
ValidatePlatform(c) ==
    IF c.Platform.Type = "" THEN [kind |-> "platform_type_required"]
    ELSE IF c.Platform.Type # "anthropic" THEN [kind |-> "platform_type_unsupported"]
    ELSE IF c.Platform.BaseURL = "" THEN [kind |-> "base_url_required"]
    ELSE IF c.Platform.OptionsNil THEN [kind |-> "options_required"]
    ELSE Nil

\* Config.Validate
Validate(c) == OrElse(ValidateScheduler(c), ValidatePlatform(c))

(***************************************************************************)
(* config/config.go                                                        *)
(***************************************************************************)
\* Load without the default of the safety buffer
LoadWithoutBufferDefault(r) ==
    [IntervalHours       |-> r.IntervalHours,
     TargetTimes         |-> r.TargetTimes,
     SafetyBufferSeconds |-> r.SafetyBufferSeconds,
     Platform            |-> [Type       |-> r.Platform.Type,
                              BaseURL    |-> r.Platform.BaseURL,
                              OptionsNil |-> FALSE,
                              Options    |-> r.Platform.Options]]

\* Load, after the file has been read and unmarshalled: the defaults. A nil
\* Options map (OptionsNil, with no keys) becomes an empty map.
Load(r) ==
    [IntervalHours       |-> r.IntervalHours,
     TargetTimes         |-> r.TargetTimes,
     SafetyBufferSeconds |-> IF r.SafetyBufferSeconds = 0 THEN 60
                             ELSE r.SafetyBufferSeconds,
     Platform            |-> [Type       |-> r.Platform.Type,
                              BaseURL    |-> r.Platform.BaseURL,
                              OptionsNil |-> FALSE,
                              Options    |-> r.Platform.Options]]

(***************************************************************************)
(* scheduler/calculator.go                                                 *)
(***************************************************************************)
\* the less function of the calculator's sort.Slice
TriggerBefore(a, b) == a.TriggerTime < b.TriggerTime

RECURSIVE InsertTrigger(_, _)
InsertTrigger(s, x) ==
    IF s = <<>> \/ ~TriggerBefore(x, s[Len(s)])
    THEN Append(s, x)
    ELSE Append(InsertTrigger(SubSeq(s, 1, Len(s) - 1), x), s[Len(s)])

RECURSIVE SortTriggers(_)
SortTriggers(s) ==
    IF s = <<>> THEN <<>>
    ELSE InsertTrigger(SortTriggers(SubSeq(s, 1, Len(s) - 1)), s[Len(s)])

\* AppendTrigger with the trigger clamped to the start of the given date
AppendTriggerClamped(triggers, day, targetStr, r, intervalHours, bufferSeconds, off) ==
    IF r.n # 2
    THEN triggers
    ELSE Append(triggers,
                [TargetTime  |-> targetStr,
                 TriggerTime |->
                     IF DateAt(day, r.hour, r.min, off) - intervalHours * 3600
                            + bufferSeconds < DateAt(day, 0, 0, off)
                     THEN DateAt(day, 0, 0, off)
                     ELSE DateAt(day, r.hour, r.min, off) - intervalHours * 3600
                            + bufferSeconds])

\* one iteration of CalculateDailyTriggers' loop: r is the Sscanf of targetStr
AppendTrigger(triggers, day, targetStr, r, intervalHours, bufferSeconds, off) ==
    IF r.n # 2
    THEN triggers
    ELSE Append(triggers,
                [TargetTime  |-> targetStr,
                 TriggerTime |-> DateAt(day, r.hour, r.min, off)
                                 - intervalHours * 3600 + bufferSeconds])

\* the loop of CalculateDailyTriggers: one trigger per target that scans
RECURSIVE AppendTriggers(_, _, _, _, _)
AppendTriggers(day, targetTimes, intervalHours, bufferSeconds, off) ==
    IF targetTimes = <<>> THEN <<>>
    ELSE AppendTrigger(AppendTriggers(day, SubSeq(targetTimes, 1, Len(targetTimes) - 1),
                                      intervalHours, bufferSeconds, off),
                       day, targetTimes[Len(targetTimes)],
                       Sscanf(targetTimes[Len(targetTimes)]),
                       intervalHours, bufferSeconds, off)

\* CalculateDailyTriggers; date is an instant in the zone at offset off
CalculateDailyTriggers(date, targetTimes, intervalHours, bufferSeconds, off) ==
    SortTriggers(AppendTriggers(CivilDay(date, off), targetTimes, intervalHours,
                                bufferSeconds, off))

\* sort.Slice(triggers, less): the array at address a is put in order
SortTriggersAt(arrays, a) == [arrays EXCEPT ![a] = SortTriggers(@)]

\* memory once CalculateDailyTriggers' loop has appended these triggers: the
\* appends made triggers' array (triggers stays nil when no target scans), and
\* sort.Slice orders that array
ArraysWithTriggers(arrays, triggers) ==
    IF triggers = <<>> THEN arrays
    ELSE SortTriggersAt(Allocate(arrays, triggers), Len(arrays) + 1)

\* memory after CalculateDailyTriggers(date, targetTimes, intervalHours,
\* bufferSeconds), targetTimes being the slice over the array at address a
ArraysAfterCalculate(arrays, a, date, intervalHours, bufferSeconds, off) ==
    ArraysWithTriggers(arrays,
                       AppendTriggers(CivilDay(date, off), arrays[a], intervalHours,
                                      bufferSeconds, off))

\* memory after NextTrigger(now, targetTimes, intervalHours, bufferSeconds):
\* CalculateDailyTriggers for today and, when tomorrowToo, for tomorrow
ArraysAfterNextTrigger(arrays, a, now, intervalHours, bufferSeconds, off, tomorrowToo) ==
    IF tomorrowToo
    THEN ArraysAfterCalculate(
             ArraysAfterCalculate(arrays, a, Truncate24h(now), intervalHours,
                                  bufferSeconds, off),
             a, Truncate24h(now) + SecondsPerDay, intervalHours, bufferSeconds, off)
    ELSE ArraysAfterCalculate(arrays, a, Truncate24h(now), intervalHours,
                              bufferSeconds, off)

\* NextTrigger's loop over today's triggers: the indexes of those after now
After(triggers, now) == {i \in 1..Len(triggers) : triggers[i].TriggerTime > now}

\* NextTrigger once today's triggers, those after now and tomorrow's are known
PickTrigger(now, today, triggers, later, next) ==
    IF later # {}
    THEN [trigger  |-> triggers[CHOOSE i \in later : \A k \in later : i <= k],
          nextDate |-> today]
    ELSE IF Len(next) > 0
    THEN [trigger |-> next[1], nextDate |-> today + SecondsPerDay]
    ELSE [trigger  |-> [TargetTime |-> <<>>, TriggerTime |-> now + SecondsPerDay],
          nextDate |-> today + SecondsPerDay]

\* NextTrigger from today's triggers on
NextFrom(now, today, triggers, targetTimes, intervalHours, bufferSeconds, off) ==
    PickTrigger(now, today, triggers, After(triggers, now),
                CalculateDailyTriggers(today + SecondsPerDay, targetTimes,
                                       intervalHours, bufferSeconds, off))

\* NextTrigger; now is an instant in the zone at offset off
NextTrigger(now, targetTimes, intervalHours, bufferSeconds, off) ==
    NextFrom(now, Truncate24h(now),
             CalculateDailyTriggers(Truncate24h(now), targetTimes, intervalHours,
                                    bufferSeconds, off),
             targetTimes, intervalHours, bufferSeconds, off)

(***************************************************************************)
(* platform/platform.go, platform/anthropic.go                             *)
(***************************************************************************)
\* a value of the Options map (map[string]any): its dynamic type, as the YAML
\* decoder chose it, and the value
StringOption(v) == [type |-> "string", value |-> v]

IntOption(v) == [type |-> "int", value |-> v]

BoolOption(v) == [type |-> "bool", value |-> v]

\* the ok of v, ok := options[key].(T): the key is present and its value has
\* the dynamic type T
AssertsAs(options, key, T) ==
    IF key \in DOMAIN options THEN options[key].type = T ELSE FALSE

\* NewPlatform and NewAnthropicPlatform: the error, or Nil
NewPlatformErr(input) ==
    IF input.Type # "anthropic" THEN [kind |-> "unsupported_platform"]
    ELSE IF ~AssertsAs(input.Options, "api_key", "string")
         THEN [kind |-> "api_key_required"]
    ELSE Nil

\* NewAnthropicPlatform: the instance's fields
NewAnthropicPlatform(input) ==
    [baseURL    |-> input.BaseURL,
     apiKey     |-> IF AssertsAs(input.Options, "api_key", "string")
                    THEN input.Options.api_key.value ELSE "",
     model      |-> IF AssertsAs(input.Options, "model", "string")
                    THEN input.Options.model.value
                    ELSE "claude-3-5-sonnet-20241022",
     maxRetries |-> IF AssertsAs(input.Options, "max_retries", "int")
                    THEN input.Options.max_retries.value ELSE 0]

\* AnthropicPlatform.ValidateConfig
ValidateConfig(p) ==
    IF p.baseURL = "" THEN [kind |-> "base_url_required"]
    ELSE IF p.apiKey = "" THEN [kind |-> "api_key_required"]
    ELSE IF p.model = "" THEN [kind |-> "model_required"]
    ELSE Nil

(***************************************************************************)
(* Inputs                                                                  *)
(***************************************************************************)
\* invocations of the action after which the model stops following the loop
MaxFires == 2

\* 2025-02-19, the day of the README's log, as days since 1970-01-01
ExampleDay == 20138

T0900 == <<"0", "9", ":", "0", "0">>
T1400 == <<"1", "4", ":", "0", "0">>
T1800 == <<"1", "8", ":", "0", "0">>
T1900 == <<"1", "9", ":", "0", "0">>
T0300 == <<"0", "3", ":", "0", "0">>
T1230 == <<"1", "2", ":", "3", "0">>

\* "\t9:00": a tab before the hour
TTab0900 == <<"\t", "9", ":", "0", "0">>

\* U+000B, then "9:00": a vertical tab before the hour
TVTab0900 == <<"", "9", ":", "0", "0">>

\* "99999999999999999999:00": an hour of 20 digits, outside int64
THourOutOfRange ==
    <<"9", "9", "9", "9", "9", "9", "9", "9", "9", "9",
      "9", "9", "9", "9", "9", "9", "9", "9", "9", "9", ":", "0", "0">>

TargetLists ==
    { <<T0900, T1400, T1900>>, <<T1900, T0900, T1400>>,
      <<T1400, T1800>>, <<T1800, T1400>>,
      <<T0300>>, <<T0300, T1230>>, <<T1900, T1230, T1800>>,
      <<T0900, T0900>>, <<T0900, T1900, T0900>>,
      <<>>, << <<"2", "5", ":", "0", "0">> >>, << <<"9", ":", "5">>, T1400 >>,
      << <<"0", "9", ":", "0", "0", "x">> >>, <<TTab0900>>,
      <<TVTab0900>> }

Intervals == {0, 5, 24, 25, 169}

Buffers == {0 - 1, 0, 3600, 3601}

Platforms ==
    { [Type |-> "anthropic", BaseURL |-> "https://api.anthropic.com",
       OptionsNil |-> FALSE, Options |-> [api_key |-> StringOption("key")]],
      [Type |-> "anthropic", BaseURL |-> "https://api.anthropic.com",
       OptionsNil |-> FALSE,
       Options |-> [api_key |-> StringOption("key"), max_retries |-> IntOption(3)]],
      [Type |-> "anthropic", BaseURL |-> "https://api.anthropic.com",
       OptionsNil |-> FALSE,
       Options |-> [api_key |-> StringOption("key"), max_retries |-> IntOption(0 - 1)]],
      [Type |-> "anthropic", BaseURL |-> "https://api.anthropic.com",
       OptionsNil |-> FALSE,
       Options |-> [api_key |-> StringOption("key"), max_retries |-> IntOption(0 - 2)]],
      [Type |-> "anthropic", BaseURL |-> "https://api.anthropic.com",
       OptionsNil |-> FALSE,
       Options |-> [api_key |-> StringOption("key"), model |-> StringOption("")]],
      [Type |-> "anthropic", BaseURL |-> "https://api.anthropic.com",
       OptionsNil |-> FALSE,
       Options |-> [api_key |-> StringOption("key"),
                    max_retries |-> StringOption("3")]],
      [Type |-> "anthropic", BaseURL |-> "https://api.anthropic.com",
       OptionsNil |-> FALSE,
       Options |-> [api_key |-> StringOption("key"),
                    max_retries |-> BoolOption(TRUE), model |-> IntOption(7)]],
      [Type |-> "anthropic", BaseURL |-> "https://api.anthropic.com",
       OptionsNil |-> FALSE, Options |-> [api_key |-> IntOption(12345)]],
      [Type |-> "anthropic", BaseURL |-> "https://api.anthropic.com",
       OptionsNil |-> TRUE, Options |-> <<>>],
      [Type |-> "anthropic", BaseURL |-> "https://api.anthropic.com",
       OptionsNil |-> FALSE, Options |-> [api_key |-> StringOption("")]],
      [Type |-> "openai", BaseURL |-> "https://api.openai.com",
       OptionsNil |-> FALSE, Options |-> [api_key |-> StringOption("key")]] }

RawConfigs ==
    [IntervalHours : Intervals, TargetTimes : TargetLists,
     SafetyBufferSeconds : Buffers, Platform : Platforms]

Zones == {0 - 5 * 3600, 0, 8 * 3600}

StartClocks == {ExampleDay * SecondsPerDay + h * 3600 : h \in {16, 23}}

\* how late the runtime delivers time.After's tick, seconds
Lateness == {0, 1}

\* how long one doTrigger takes, seconds
AttemptSeconds == {1}

\* the zero value of Config
ZeroConfig ==
    [IntervalHours |-> 0, TargetTimes |-> <<>>, SafetyBufferSeconds |-> 0,
     Platform |-> [Type |-> "", BaseURL |-> "", OptionsNil |-> TRUE, Options |-> <<>>]]

NoTrigger == [TargetTime |-> <<>>, TriggerTime |-> 0]

NoProbe == [fn |-> "none"]

(***************************************************************************)
(* main.go                                                                 *)
(***************************************************************************)
Init ==
    /\ raw \in RawConfigs
    /\ tz \in Zones
    /\ clock \in StartClocks
    /\ cfg = ZeroConfig
    /\ pc = "load"
    /\ validateErr = Nil
    /\ maxRetries = 0
    /\ nextTrigger = NoTrigger
    /\ calcNow = 0
    /\ cancelled = FALSE
    /\ startErr = "none"
    /\ exitPoint = "none"
    /\ tpc = "idle"
    /\ attempt = 0
    /\ inFlight = 0
    /\ trigErr = "none"
    /\ fired = <<>>
    /\ slept = <<>>
    /\ tried = <<>>
    /\ probe = NoProbe

\* main: config.Load
MainLoad ==
    /\ pc = "load"
    /\ cfg' = Load(raw)
    /\ pc' = "validate"
    /\ UNCHANGED <<raw, tz, clock, validateErr, maxRetries, nextTrigger, calcNow,
                   cancelled, startErr, exitPoint, tpc, attempt, inFlight, trigErr,
                   fired, slept, tried, probe>>

\* MainValidate with the error logged by log.Printf and main going on
MainValidateLogsOnly ==
    /\ pc = "validate"
    /\ validateErr' = Validate(cfg)
    /\ pc' = "platform"
    /\ UNCHANGED <<raw, cfg, tz, clock, maxRetries, nextTrigger, calcNow,
                   cancelled, startErr, exitPoint, tpc, attempt, inFlight, trigErr,
                   fired, slept, tried, probe>>

\* main: cfg.Validate, log.Fatalf on an error
MainValidate ==
    /\ pc = "validate"
    /\ validateErr' = Validate(cfg)
    /\ pc' = IF validateErr' # Nil THEN "fatal" ELSE "platform"
    /\ UNCHANGED <<raw, cfg, tz, clock, maxRetries, nextTrigger, calcNow,
                   cancelled, startErr, exitPoint, tpc, attempt, inFlight, trigErr,
                   fired, slept, tried, probe>>

\* main: platform.NewPlatform, p.ValidateConfig, scheduler.New, signal.Notify and
\* the call of sched.Start
MainPlatform ==
    /\ pc = "platform"
    /\ validateErr' = OrElse(NewPlatformErr(cfg.Platform),
                             ValidateConfig(NewAnthropicPlatform(cfg.Platform)))
    /\ pc' = IF validateErr' # Nil THEN "fatal" ELSE "start"
    /\ maxRetries' = IF validateErr' # Nil THEN maxRetries
                     ELSE NewAnthropicPlatform(cfg.Platform).maxRetries
    /\ UNCHANGED <<raw, cfg, tz, clock, nextTrigger, calcNow,
                   cancelled, startErr, exitPoint, tpc, attempt, inFlight, trigErr,
                   fired, slept, tried, probe>>

\* main's goroutine: a signal arrives on sigCh and cancel() is called
Cancel ==
    /\ pc \in {"start", "top", "select", "waiting", "fire", "inTrigger"}
    /\ ~cancelled
    /\ cancelled' = TRUE
    /\ UNCHANGED <<raw, cfg, tz, clock, pc, validateErr, maxRetries, nextTrigger,
                   calcNow, startErr, exitPoint, tpc, attempt, inFlight, trigErr,
                   fired, slept, tried, probe>>

(***************************************************************************)
(* scheduler/scheduler.go                                                  *)
(***************************************************************************)
\* the scheduler's call of NextTrigger with time.Now()
SchedulerNextTrigger ==
    NextTrigger(clock, cfg.TargetTimes, cfg.IntervalHours,
                cfg.SafetyBufferSeconds, tz).trigger

\* Start, up to the main loop: the first trigger
StartFirst ==
    /\ pc = "start"
    /\ calcNow' = clock
    /\ nextTrigger' = SchedulerNextTrigger
    /\ pc' = "top"
    /\ UNCHANGED <<raw, cfg, tz, clock, validateErr, maxRetries,
                   cancelled, startErr, exitPoint, tpc, attempt, inFlight, trigErr,
                   fired, slept, tried, probe>>

\* LoopTop with `break` in the ctx.Done() case of the first select: it leaves
\* the select, not the loop
LoopTopBreaksSelect ==
    /\ pc = "top"
    /\ Len(fired) < MaxFires
    /\ pc' = IF nextTrigger.TriggerTime > clock THEN "select" ELSE "fire"
    /\ UNCHANGED <<raw, cfg, tz, clock, validateErr, maxRetries, nextTrigger,
                   calcNow, cancelled, startErr, exitPoint, tpc, attempt, inFlight,
                   trigErr, fired, slept, tried, probe>>

\* the loop's first select, then now := time.Now(), the test of the trigger and
\* the duration of the wait;
\* the model follows the loop into a new round for MaxFires invocations only
LoopTop ==
    /\ pc = "top"
    /\ IF cancelled
       THEN /\ pc' = "returned"
            /\ startErr' = "context canceled"
            /\ exitPoint' = "top"
       ELSE /\ Len(fired) < MaxFires
            /\ pc' = IF nextTrigger.TriggerTime > clock THEN "select" ELSE "fire"
            /\ UNCHANGED <<startErr, exitPoint>>
    /\ UNCHANGED <<raw, cfg, tz, clock, validateErr, maxRetries, nextTrigger,
                   calcNow, cancelled, tpc, attempt, inFlight, trigErr,
                   fired, slept, tried, probe>>

\* the second select is entered with neither case ready: Start blocks in it
SelectBlocks ==
    /\ pc = "select"
    /\ ~cancelled
    /\ pc' = "waiting"
    /\ UNCHANGED <<raw, cfg, tz, clock, validateErr, maxRetries, nextTrigger,
                   calcNow, cancelled, startErr, exitPoint, tpc, attempt, inFlight,
                   trigErr, fired, slept, tried, probe>>

\* the second select is entered with ctx.Done() closed, and the runtime takes
\* that case: the only one ready, or its pick of the two
SelectCancelled ==
    /\ pc = "select"
    /\ cancelled
    /\ pc' = "returned"
    /\ startErr' = "context canceled"
    /\ exitPoint' = "poll"
    /\ UNCHANGED <<raw, cfg, tz, clock, validateErr, maxRetries, nextTrigger,
                   calcNow, cancelled, tpc, attempt, inFlight, trigErr,
                   fired, slept, tried, probe>>

\* the second select is entered when the timer has already expired (the
\* goroutine took the duration, or more, to get from time.Now() to the select),
\* and the runtime takes <-time.After: the only case ready, or, with
\* ctx.Done() closed as well, its pick of the two
SelectTimerReady ==
    /\ pc = "select"
    /\ \E late \in Lateness : clock' = nextTrigger.TriggerTime + late
    /\ pc' = "fire"
    /\ UNCHANGED <<raw, cfg, tz, validateErr, maxRetries, nextTrigger, calcNow,
                   cancelled, startErr, exitPoint, tpc, attempt, inFlight, trigErr,
                   fired, slept, tried, probe>>

\* TimerFires with time.After(0) for time.After(duration): the tick comes
\* without the wait
TimerFiresWithoutDuration ==
    /\ pc = "waiting"
    /\ ~cancelled
    /\ \E late \in Lateness : clock' = clock + late
    /\ pc' = "fire"
    /\ UNCHANGED <<raw, cfg, tz, validateErr, maxRetries, nextTrigger, calcNow,
                   cancelled, startErr, exitPoint, tpc, attempt, inFlight, trigErr,
                   fired, slept, tried, probe>>

\* Start is blocked in the second select and the timer sends: case
\* <-time.After(duration). With ctx.Done() closed the blocked select has
\* already been woken for the other case.
TimerFires ==
    /\ pc = "waiting"
    /\ ~cancelled
    /\ \E late \in Lateness : clock' = nextTrigger.TriggerTime + late
    /\ pc' = "fire"
    /\ UNCHANGED <<raw, cfg, tz, validateErr, maxRetries, nextTrigger, calcNow,
                   cancelled, startErr, exitPoint, tpc, attempt, inFlight, trigErr,
                   fired, slept, tried, probe>>

\* WaitCancelled without its return: the select falls through to the trigger
WaitCancelledFallsThrough ==
    /\ pc = "waiting"
    /\ cancelled
    /\ pc' = "fire"
    /\ UNCHANGED <<raw, cfg, tz, clock, validateErr, maxRetries, nextTrigger,
                   calcNow, cancelled, startErr, exitPoint, tpc, attempt, inFlight,
                   trigErr, fired, slept, tried, probe>>

\* Start is blocked in the second select and ctx.Done() is closed: case
\* <-ctx.Done(), return ctx.Err()
WaitCancelled ==
    /\ pc = "waiting"
    /\ cancelled
    /\ pc' = "returned"
    /\ startErr' = "context canceled"
    /\ exitPoint' = "wait"
    /\ UNCHANGED <<raw, cfg, tz, clock, validateErr, maxRetries, nextTrigger,
                   calcNow, cancelled, tpc, attempt, inFlight, trigErr,
                   fired, slept, tried, probe>>

\* CallTrigger as `go s.platform.Trigger(ctx)`: Start does not wait for the
\* invocation and computes the next trigger at once
CallTriggerInBackground ==
    /\ pc = "fire"
    /\ Len(fired) < MaxFires
    /\ fired' = Append(fired, nextTrigger.TriggerTime)
    /\ inFlight' = inFlight + 1
    /\ attempt' = 0
    /\ slept' = <<>>
    /\ tried' = <<>>
    /\ tpc' = "attempt"
    /\ trigErr' = "none"
    /\ calcNow' = clock
    /\ nextTrigger' = SchedulerNextTrigger
    /\ pc' = "top"
    /\ UNCHANGED <<raw, cfg, tz, clock, validateErr, maxRetries,
                   cancelled, startErr, exitPoint, probe>>

\* s.platform.Trigger(ctx) is called; Start is blocked until it returns
CallTrigger ==
    /\ pc = "fire"
    /\ Len(fired) < MaxFires
    /\ fired' = Append(fired, nextTrigger.TriggerTime)
    /\ inFlight' = inFlight + 1
    /\ attempt' = 0
    /\ slept' = <<>>
    /\ tried' = <<>>
    /\ tpc' = "attempt"
    /\ trigErr' = "none"
    /\ pc' = "inTrigger"
    /\ UNCHANGED <<raw, cfg, tz, clock, validateErr, maxRetries, nextTrigger,
                   calcNow, cancelled, startErr, exitPoint, probe>>

\* AfterTrigger with the loop closed below the first select: the next round
\* starts at the test of the trigger time
AfterTriggerSkipsFirstSelect ==
    /\ pc = "inTrigger"
    /\ tpc = "returned"
    /\ Len(fired) < MaxFires
    /\ tpc' = "idle"
    /\ calcNow' = clock
    /\ nextTrigger' = SchedulerNextTrigger
    /\ pc' = IF nextTrigger'.TriggerTime > clock THEN "select" ELSE "fire"
    /\ UNCHANGED <<raw, cfg, tz, clock, validateErr, maxRetries,
                   cancelled, startErr, exitPoint, attempt, inFlight, trigErr,
                   fired, slept, tried, probe>>

\* AfterTrigger with `return err` in the error branch
AfterTriggerReturnsError ==
    /\ pc = "inTrigger"
    /\ tpc = "returned"
    /\ tpc' = "idle"
    /\ IF trigErr # "nil"
       THEN /\ pc' = "returned"
            /\ startErr' = trigErr
            /\ UNCHANGED <<calcNow, nextTrigger>>
       ELSE /\ calcNow' = clock
            /\ nextTrigger' = SchedulerNextTrigger
            /\ pc' = "top"
            /\ UNCHANGED startErr
    /\ UNCHANGED <<raw, cfg, tz, clock, validateErr, maxRetries,
                   cancelled, exitPoint, attempt, inFlight, trigErr,
                   fired, slept, tried, probe>>

\* Trigger has returned: the outcome is logged and the next trigger computed
AfterTrigger ==
    /\ pc = "inTrigger"
    /\ tpc = "returned"
    /\ tpc' = "idle"
    /\ calcNow' = clock
    /\ nextTrigger' = SchedulerNextTrigger
    /\ pc' = "top"
    /\ UNCHANGED <<raw, cfg, tz, clock, validateErr, maxRetries,
                   cancelled, startErr, exitPoint, attempt, inFlight, trigErr,
                   fired, slept, tried, probe>>

(***************************************************************************)
(* platform/anthropic.go: Trigger                                          *)
(***************************************************************************)
\* time.Sleep(time.Duration(attempt) * time.Second) before a retry
Backoff ==
    /\ tpc = "backoff"
    /\ clock' = clock + attempt
    /\ slept' = Append(slept, attempt)
    /\ tpc' = "attempt"
    /\ UNCHANGED <<raw, cfg, tz, pc, validateErr, maxRetries, nextTrigger, calcNow,
                   cancelled, startErr, exitPoint, attempt, inFlight, trigErr,
                   fired, tried, probe>>

\* the loop test attempt <= p.maxRetries is false when Trigger comes to it for
\* the first time: no attempt is made, the error after the loop is returned
NoAttempt ==
    /\ tpc = "attempt"
    /\ attempt > maxRetries
    /\ tpc' = "returned"
    /\ trigErr' = "trigger failed"
    /\ inFlight' = inFlight - 1
    /\ UNCHANGED <<raw, cfg, tz, clock, pc, validateErr, maxRetries, nextTrigger,
                   calcNow, cancelled, startErr, exitPoint, attempt, fired, slept,
                   tried, probe>>

\* doTrigger returns nil: Trigger returns nil. doTrigger meets ctx only inside
\* client.Do and Body.Read, so it can return nil after the context is cancelled
AttemptSucceeds ==
    /\ tpc = "attempt"
    /\ attempt <= maxRetries
    /\ \E d \in AttemptSeconds : clock' = clock + d
    /\ tpc' = "returned"
    /\ trigErr' = "nil"
    /\ inFlight' = inFlight - 1
    /\ tried' = Append(tried, "nil")
    /\ UNCHANGED <<raw, cfg, tz, pc, validateErr, maxRetries, nextTrigger, calcNow,
                   cancelled, startErr, exitPoint, attempt, fired, slept, probe>>

\* doTrigger returns an error: the next attempt, or Trigger returns the error
AttemptFails ==
    /\ tpc = "attempt"
    /\ attempt <= maxRetries
    /\ \E d \in AttemptSeconds : clock' = clock + d
    /\ attempt' = attempt + 1
    /\ IF attempt + 1 <= maxRetries
       THEN /\ tpc' = "backoff"
            /\ UNCHANGED <<trigErr, inFlight>>
       ELSE /\ tpc' = "returned"
            /\ trigErr' = "trigger failed"
            /\ inFlight' = inFlight - 1
    /\ tried' = Append(tried, "error")
    /\ UNCHANGED <<raw, cfg, tz, pc, validateErr, maxRetries, nextTrigger, calcNow,
                   cancelled, startErr, exitPoint, fired, slept, probe>>

Next ==
    \/ MainLoad
    \/ MainValidate
    \/ MainPlatform
    \/ Cancel
    \/ StartFirst
    \/ LoopTop
    \/ SelectBlocks
    \/ SelectCancelled
    \/ SelectTimerReady
    \/ TimerFires
    \/ WaitCancelled
    \/ CallTrigger
    \/ AfterTrigger
    \/ Backoff
    \/ NoAttempt
    \/ AttemptSucceeds
    \/ AttemptFails

Spec == Init /\ [][Next]_vars

(***************************************************************************)
(* The calculator's functions on their own: the arguments are drawn, the   *)
(* function is applied once.                                               *)
(***************************************************************************)
\* the time.Time arguments: instants of 2025-02-19 (UTC), in the zone drawn
CalcInstants == {ExampleDay * SecondsPerDay + h * 3600 + m * 60 :
                    h \in {0, 4, 16, 23}, m \in {0, 1}}

CalcBuffers == {0, 60, 3600}

\* the target lists, and lists with a target that does not scan
CalcTargetLists == TargetLists \cup {<<THourOutOfRange>>, <<T1400, THourOutOfRange>>}

InitCalc ==
    /\ probe \in [fn : {"CalculateDailyTriggers", "NextTrigger"},
                  t : CalcInstants, targetTimes : CalcTargetLists,
                  intervalHours : Intervals, bufferSeconds : CalcBuffers,
                  done : {FALSE}, ret : {<<>>}]
    /\ tz \in Zones
    /\ raw = ZeroConfig
    /\ clock = 0
    /\ cfg = ZeroConfig
    /\ pc = "probe"
    /\ validateErr = Nil
    /\ maxRetries = 0
    /\ nextTrigger = NoTrigger
    /\ calcNow = 0
    /\ cancelled = FALSE
    /\ startErr = "none"
    /\ exitPoint = "none"
    /\ tpc = "idle"
    /\ attempt = 0
    /\ inFlight = 0
    /\ trigErr = "none"
    /\ fired = <<>>
    /\ slept = <<>>
    /\ tried = <<>>

ApplyCalculateDailyTriggers ==
    /\ pc = "probe"
    /\ probe.fn = "CalculateDailyTriggers"
    /\ ~probe.done
    /\ probe' = [probe EXCEPT !.done = TRUE,
                              !.ret = CalculateDailyTriggers(probe.t, probe.targetTimes,
                                          probe.intervalHours, probe.bufferSeconds, tz)]
    /\ UNCHANGED <<raw, cfg, tz, clock, pc, validateErr, maxRetries, nextTrigger,
                   calcNow, cancelled, startErr, exitPoint, tpc, attempt, inFlight,
                   trigErr, fired, slept, tried>>

ApplyNextTrigger ==
    /\ pc = "probe"
    /\ probe.fn = "NextTrigger"
    /\ ~probe.done
    /\ probe' = [probe EXCEPT !.done = TRUE,
                              !.ret = NextTrigger(probe.t, probe.targetTimes,
                                          probe.intervalHours, probe.bufferSeconds, tz)]
    /\ UNCHANGED <<raw, cfg, tz, clock, pc, validateErr, maxRetries, nextTrigger,
                   calcNow, cancelled, startErr, exitPoint, tpc, attempt, inFlight,
                   trigErr, fired, slept, tried>>

NextCalc == ApplyCalculateDailyTriggers \/ ApplyNextTrigger

SpecCalc == InitCalc /\ [][NextCalc]_vars

(***************************************************************************)
(* NextTrigger on the README's example: interval 5, targets 09:00, 14:00   *)
(* and 19:00, buffer 60, called when the process's wall clock shows a      *)
(* reading of 2025-02-19 or 2025-02-20.                                    *)
(***************************************************************************)
\* the instant at which the process's wall clock shows hh:mm:ss on the day
\* ExampleDay + day
WallClock(day, hh, mm, ss) == DateAt(ExampleDay + day, hh, mm, tz) + ss

\* the readings <<day, hh, mm, ss>>: every full hour of the two days, and one
\* second after 19:01:00 of the first and after 04:01:00 of the second
ExampleReadings ==
    {<<d, h, 0, 0>> : d \in {0, 1}, h \in 0..23} \cup {<<0, 19, 1, 1>>, <<1, 4, 1, 1>>}

InitExample ==
    /\ tz \in Zones
    /\ \E r \in ExampleReadings :
          probe = [fn |-> "NextTrigger", t |-> WallClock(r[1], r[2], r[3], r[4]),
                   targetTimes |-> <<T0900, T1400, T1900>>, intervalHours |-> 5,
                   bufferSeconds |-> 60, done |-> FALSE, ret |-> <<>>]
    /\ raw = ZeroConfig
    /\ clock = 0
    /\ cfg = ZeroConfig
    /\ pc = "probe"
    /\ validateErr = Nil
    /\ maxRetries = 0
    /\ nextTrigger = NoTrigger
    /\ calcNow = 0
    /\ cancelled = FALSE
    /\ startErr = "none"
    /\ exitPoint = "none"
    /\ tpc = "idle"
    /\ attempt = 0
    /\ inFlight = 0
    /\ trigErr = "none"
    /\ fired = <<>>
    /\ slept = <<>>
    /\ tried = <<>>

NextExample == ApplyNextTrigger

SpecExample == InitExample /\ [][NextExample]_vars

(***************************************************************************)
(* validateTargetTimesConflict on its own, applied to a list of targets    *)
(* and to a permutation of it.                                             *)
(***************************************************************************)
\* the longest target list drawn
MaxTargets == 3

ConflictTimes == {T0300, T0900, T1230, T1400, T1800}

ConflictLists == UNION {[1..n -> ConflictTimes] : n \in 1..MaxTargets}

ConflictIntervals == {1, 4, 5, 6, 12, 24, 25, 168}

\* the permutations of 1..n
ListOrders(n) ==
    {f \in [1..n -> 1..n] : \A i, j \in 1..n : i # j => f[i] # f[j]}

InitConflict ==
    /\ probe \in UNION {
            {[fn |-> "validateTargetTimesConflict",
              targetTimes |-> l, permuted |-> [i \in 1..Len(l) |-> l[f[i]]],
              intervalHours |-> h, done |-> FALSE, ret |-> Nil, retPermuted |-> Nil] :
                f \in ListOrders(Len(l)), h \in ConflictIntervals} :
            l \in ConflictLists}
    /\ tz = 0
    /\ raw = ZeroConfig
    /\ clock = 0
    /\ cfg = ZeroConfig
    /\ pc = "probe"
    /\ validateErr = Nil
    /\ maxRetries = 0
    /\ nextTrigger = NoTrigger
    /\ calcNow = 0
    /\ cancelled = FALSE
    /\ startErr = "none"
    /\ exitPoint = "none"
    /\ tpc = "idle"
    /\ attempt = 0
    /\ inFlight = 0
    /\ trigErr = "none"
    /\ fired = <<>>
    /\ slept = <<>>
    /\ tried = <<>>

ApplyValidateTargetTimesConflict ==
    /\ pc = "probe"
    /\ probe.fn = "validateTargetTimesConflict"
    /\ ~probe.done
    /\ probe' = [probe EXCEPT
                    !.done = TRUE,
                    !.ret = validateTargetTimesConflict(probe.targetTimes,
                                                        probe.intervalHours),
                    !.retPermuted = validateTargetTimesConflict(probe.permuted,
                                                                probe.intervalHours)]
    /\ UNCHANGED <<raw, cfg, tz, clock, pc, validateErr, maxRetries, nextTrigger,
                   calcNow, cancelled, startErr, exitPoint, tpc, attempt, inFlight,
                   trigErr, fired, slept, tried>>

NextConflict == ApplyValidateTargetTimesConflict

SpecConflict == InitConflict /\ [][NextConflict]_vars

\* a superset of what NextTrigger can return at the current time
NextTriggerResults ==
    [TargetTime  : {cfg.TargetTimes[i] : i \in 1..Len(cfg.TargetTimes)} \cup {<<>>},
     TriggerTime : (clock - 9 * SecondsPerDay)..(clock + 3 * SecondsPerDay)]

\* Start goes on to a NextTrigger call and back to the top of the loop: a step
\* of StartFirst or of AfterTrigger, described by its effect on control so that
\* whether it can be taken does not depend on the trigger computed
StartComputesNext ==
    /\ pc = "start" \/ (pc = "inTrigger" /\ tpc = "returned")
    /\ pc' = "top"
    /\ tpc' = "idle"
    /\ calcNow' = clock
    /\ nextTrigger' \in NextTriggerResults
    /\ UNCHANGED <<raw, cfg, tz, clock, validateErr, maxRetries, cancelled,
                   startErr, exitPoint, attempt, inFlight, trigErr, fired, slept, tried,
                   probe>>

\* Start and Trigger run on a goroutine the runtime keeps scheduling, every
\* sleep ends and every doTrigger returns (its context has a timeout); the
\* timer of the wait and the arrival of a signal are not assumed
SpecLive ==
    /\ Spec
    /\ WF_vars(StartComputesNext)
    /\ WF_vars(LoopTop)
    /\ WF_vars(SelectBlocks \/ SelectCancelled \/ SelectTimerReady)
    /\ WF_vars(WaitCancelled)
    /\ WF_vars(CallTrigger)
    /\ WF_vars(Backoff)
    /\ WF_vars(NoAttempt \/ AttemptSucceeds \/ AttemptFails)

(***************************************************************************)
(* isTimeInRange on its own: the three times are drawn, the function is    *)
(* applied once.                                                           *)
(***************************************************************************)
\* time.Time values in UTC, on 1999-12-31 and 2000-01-01
RangeInstants ==
    {DateAt(d, h, m, 0) : d \in {10956, 10957}, h \in {0, 2, 12, 22, 23}, m \in {0, 30}}

InitRange ==
    /\ probe \in [fn : {"isTimeInRange"}, t : RangeInstants, start : RangeInstants,
                  end : RangeInstants, done : {FALSE}, ret : {FALSE}]
    /\ raw = ZeroConfig
    /\ tz = 0
    /\ clock = 0
    /\ cfg = ZeroConfig
    /\ pc = "probe"
    /\ validateErr = Nil
    /\ maxRetries = 0
    /\ nextTrigger = NoTrigger
    /\ calcNow = 0
    /\ cancelled = FALSE
    /\ startErr = "none"
    /\ exitPoint = "none"
    /\ tpc = "idle"
    /\ attempt = 0
    /\ inFlight = 0
    /\ trigErr = "none"
    /\ fired = <<>>
    /\ slept = <<>>
    /\ tried = <<>>

ApplyIsTimeInRange ==
    /\ pc = "probe"
    /\ probe.fn = "isTimeInRange"
    /\ ~probe.done
    /\ probe' = [probe EXCEPT !.done = TRUE,
                              !.ret = isTimeInRange(probe.t, probe.start, probe.end)]
    /\ UNCHANGED <<raw, cfg, tz, clock, pc, validateErr, maxRetries, nextTrigger,
                   calcNow, cancelled, startErr, exitPoint, tpc, attempt, inFlight,
                   trigErr, fired, slept, tried>>

NextRange == ApplyIsTimeInRange

SpecRange == InitRange /\ [][NextRange]_vars

(***************************************************************************)
(* parseTime, timeOfDay.toTime and formatTime on their own: a string is     *)
(* drawn, parsed, converted and formatted.                                 *)
(***************************************************************************)
\* the strings dd:dd with a first digit of 0, 1 or 2, in range or not, and some
\* strings of other shapes
ClockTexts ==
    {<<a, Digits[b], ":", Digits[c], Digits[d]>> :
        a \in {"0", "1", "2"}, b \in 1..10, c \in 1..10, d \in 1..10}
    \cup { <<"9", ":", "0", "5">>, <<"0", "9", ":", "5">>, <<"9", ":", "5">>,
           <<"0", "9", ":", "0", "0", "x">>, <<"0", "0", "9", ":", "0", "0">>,
           <<"0", "9", "0", "0">>, <<>>, TTab0900, <<"9", ":", "\t", "0", "5">>,
           <<"\r", "9">>, <<"\n", "9", ":", "0", "0">>, THourOutOfRange,
           TVTab0900, <<"", "9", ":", "0", "0">>,
           <<"9", ":", " ", "0", "5">>, <<"U+3000", "9", ":", "0", "0">>,
           <<"U+2003", "\n", "9", ":", "0", "0">> }

InitFormat ==
    /\ probe \in [fn : {"formatTime"}, text : ClockTexts, done : {FALSE}, ret : {<<>>}]
    /\ raw = ZeroConfig
    /\ tz = 0
    /\ clock = 0
    /\ cfg = ZeroConfig
    /\ pc = "probe"
    /\ validateErr = Nil
    /\ maxRetries = 0
    /\ nextTrigger = NoTrigger
    /\ calcNow = 0
    /\ cancelled = FALSE
    /\ startErr = "none"
    /\ exitPoint = "none"
    /\ tpc = "idle"
    /\ attempt = 0
    /\ inFlight = 0
    /\ trigErr = "none"
    /\ fired = <<>>
    /\ slept = <<>>
    /\ tried = <<>>

\* formatTime(timeOfDay{parseTime(text)}.toTime())
ApplyParseFormat ==
    /\ pc = "probe"
    /\ probe.fn = "formatTime"
    /\ ~probe.done
    /\ probe' = [probe EXCEPT !.done = TRUE,
                              !.ret = formatTime(toTime(parseTime(probe.text)))]
    /\ UNCHANGED <<raw, cfg, tz, clock, pc, validateErr, maxRetries, nextTrigger,
                   calcNow, cancelled, startErr, exitPoint, tpc, attempt, inFlight,
                   trigErr, fired, slept, tried>>

NextFormat == ApplyParseFormat

SpecFormat == InitFormat /\ [][NextFormat]_vars

(***************************************************************************)
(* ValidateScheduler, CalculateDailyTriggers and NextTrigger called on one *)
(* configuration, in any order: what the calls leave in the configuration. *)
(***************************************************************************)
\* the number of calls followed
MaxCalls == 2

FrameInstants == {ExampleDay * SecondsPerDay + h * 3600 : h \in {4, 23}}

InitFrame ==
    /\ raw \in [IntervalHours : Intervals, TargetTimes : TargetLists,
                SafetyBufferSeconds : CalcBuffers,
                Platform : {[Type |-> "anthropic", BaseURL |-> "https://api.anthropic.com",
                             OptionsNil |-> FALSE,
                             Options |-> [api_key |-> StringOption("key")]]}]
    /\ cfg = Load(raw)
    /\ probe = [fn |-> "frame", calls |-> 0, last |-> "none", ret |-> <<>>,
                arrays |-> <<Load(raw).TargetTimes>>]
    /\ tz \in Zones
    /\ clock = 0
    /\ pc = "probe"
    /\ validateErr = Nil
    /\ maxRetries = 0
    /\ nextTrigger = NoTrigger
    /\ calcNow = 0
    /\ cancelled = FALSE
    /\ startErr = "none"
    /\ exitPoint = "none"
    /\ tpc = "idle"
    /\ attempt = 0
    /\ inFlight = 0
    /\ trigErr = "none"
    /\ fired = <<>>
    /\ slept = <<>>
    /\ tried = <<>>

\* cfg.ValidateScheduler()
CallValidateScheduler ==
    /\ pc = "probe"
    /\ probe.fn = "frame"
    /\ probe.calls < MaxCalls
    /\ probe' = [probe EXCEPT !.calls = @ + 1, !.last = "ValidateScheduler",
                              !.ret = ValidateScheduler(cfg),
                              !.arrays = ArraysAfterValidateScheduler(cfg, @)]
    /\ cfg' = [cfg EXCEPT !.TargetTimes = probe'.arrays[TargetTimesArray]]
    /\ UNCHANGED <<raw, tz, clock, pc, validateErr, maxRetries, nextTrigger,
                   calcNow, cancelled, startErr, exitPoint, tpc, attempt, inFlight,
                   trigErr, fired, slept, tried>>

\* CalculateDailyTriggers(date, cfg.TargetTimes, cfg.IntervalHours,
\* cfg.SafetyBufferSeconds)
CallCalculateDailyTriggers ==
    /\ pc = "probe"
    /\ probe.fn = "frame"
    /\ probe.calls < MaxCalls
    /\ \E date \in FrameInstants :
          probe' = [probe EXCEPT !.calls = @ + 1, !.last = "CalculateDailyTriggers",
                                 !.ret = CalculateDailyTriggers(date, cfg.TargetTimes,
                                             cfg.IntervalHours,
                                             cfg.SafetyBufferSeconds, tz),
                                 !.arrays = ArraysAfterCalculate(@, TargetTimesArray,
                                                date, cfg.IntervalHours,
                                                cfg.SafetyBufferSeconds, tz)]
    /\ cfg' = [cfg EXCEPT !.TargetTimes = probe'.arrays[TargetTimesArray]]
    /\ UNCHANGED <<raw, tz, clock, pc, validateErr, maxRetries, nextTrigger,
                   calcNow, cancelled, startErr, exitPoint, tpc, attempt, inFlight,
                   trigErr, fired, slept, tried>>

\* NextTrigger(now, cfg.TargetTimes, cfg.IntervalHours, cfg.SafetyBufferSeconds):
\* CalculateDailyTriggers for today and, when it returns none of today's
\* triggers, for tomorrow
CallNextTrigger ==
    /\ pc = "probe"
    /\ probe.fn = "frame"
    /\ probe.calls < MaxCalls
    /\ \E now \in FrameInstants :
          /\ probe' = [probe EXCEPT
                          !.calls = @ + 1, !.last = "NextTrigger",
                          !.ret = NextTrigger(now, cfg.TargetTimes, cfg.IntervalHours,
                                              cfg.SafetyBufferSeconds, tz),
                          !.arrays = ArraysAfterNextTrigger(@, TargetTimesArray, now,
                                         cfg.IntervalHours, cfg.SafetyBufferSeconds, tz,
                                         After(CalculateDailyTriggers(Truncate24h(now),
                                                   cfg.TargetTimes, cfg.IntervalHours,
                                                   cfg.SafetyBufferSeconds, tz),
                                               now) = {})]
          /\ cfg' = [cfg EXCEPT !.TargetTimes = probe'.arrays[TargetTimesArray]]
    /\ UNCHANGED <<raw, tz, clock, pc, validateErr, maxRetries, nextTrigger,
                   calcNow, cancelled, startErr, exitPoint, tpc, attempt, inFlight,
                   trigErr, fired, slept, tried>>

NextFrame == CallValidateScheduler \/ CallCalculateDailyTriggers \/ CallNextTrigger

SpecFrame == InitFrame /\ [][NextFrame]_vars

(***************************************************************************)
(* Properties                                                              *)
(***************************************************************************)
\* the calendar dates, after the first, over which a schedule is laid out
ScheduleDays == 2

\* Load has run: cfg is the configuration the program works with
Loaded == pc \notin {"load", "probe"}

\* ValidateScheduler accepts the loaded configuration
SchedulerAccepted == Loaded /\ ValidateScheduler(cfg) = Nil

\* NextTrigger has been called: nextTrigger is its result for now = calcNow
Computed == pc \in {"top", "select", "waiting", "fire", "inTrigger", "returned"}

\* seconds since midnight of the HH:MM string s
TargetSeconds(s) == parseTime(s).hour * 3600 + parseTime(s).min * 60

\* the trigger instants CalculateDailyTriggers produces for the dates
\* first, first + 1, ..., first + days (day numbers in the process's zone)
ScheduleInstants(first, days) ==
    UNION { { CalculateDailyTriggers(DateAt(d, 0, 0, tz), cfg.TargetTimes,
                                     cfg.IntervalHours, cfg.SafetyBufferSeconds,
                                     tz)[i].TriggerTime :
                i \in 1..Len(cfg.TargetTimes) } :
            d \in first..(first + days) }

\* C1: for every configuration ValidateScheduler accepts, no trigger instant of
\* the schedule CalculateDailyTriggers produces over consecutive dates lies in
\* the quota window [T2, T2 + intervalHours) opened by another trigger instant T2.
C1_NoOverlappingWindows ==
    SchedulerAccepted =>
        \A T1, T2 \in ScheduleInstants(ExampleDay, ScheduleDays) :
            T1 # T2 => ~(T2 <= T1 /\ T1 < T2 + cfg.IntervalHours * 3600)

\* every daily recurring trigger instant, (date at target) - intervalHours +
\* bufferSeconds, for the dates from the day before now on, written from the
\* formula and not from CalculateDailyTriggers
RecurringInstants(now) ==
    { DateAt(d, 0, 0, tz) + TargetSeconds(cfg.TargetTimes[i])
        - cfg.IntervalHours * 3600 + cfg.SafetyBufferSeconds :
      d \in (CivilDay(now, tz) - 1)..(CivilDay(now, tz) + (cfg.IntervalHours \div 24) + 2),
      i \in 1..Len(cfg.TargetTimes) }

\* C2: for every validated configuration and every now, NextTrigger returns a
\* trigger whose instant is strictly after now and is the earliest recurring
\* trigger instant after now, also from the tomorrow branch and when a trigger
\* rolls into the previous calendar day.
C2_NextTriggerEarliestAfterNow ==
    Computed =>
        /\ nextTrigger.TriggerTime > calcNow
        /\ nextTrigger.TriggerTime \in RecurringInstants(calcNow)
        /\ \A t \in RecurringInstants(calcNow) :
              t > calcNow => nextTrigger.TriggerTime <= t

\* NextTrigger has been applied to the arguments in probe
NextTriggerApplied == pc = "probe" /\ probe.fn = "NextTrigger" /\ probe.done

\* the arguments of the README's example: interval 5, targets 09:00, 14:00 and
\* 19:00, buffer 60
ReadmeExample ==
    /\ probe.intervalHours = 5
    /\ probe.targetTimes = <<T0900, T1400, T1900>>
    /\ probe.bufferSeconds = 60

\* C3: in the README's example NextTrigger at now = 2025-02-19 16:00:00
\* returns the trigger for 19:00 at 2025-02-19 19:01:00, and with now just
\* after that instant the trigger for 09:00 at 2025-02-20 04:01:00.
C3_AsStated ==
    (NextTriggerApplied /\ ReadmeExample) =>
        /\ probe.t = WallClock(0, 16, 0, 0) =>
              probe.ret.trigger =
                  [TargetTime |-> T1900, TriggerTime |-> WallClock(0, 19, 1, 0)]
        /\ (probe.t > WallClock(0, 19, 1, 0) /\ probe.t < WallClock(0, 19, 2, 0)) =>
              probe.ret.trigger =
                  [TargetTime |-> T0900, TriggerTime |-> WallClock(1, 4, 1, 0)]

\* C4: the scheduling loop fires no trigger instant twice: every invocation of
\* the action is for a trigger instant strictly later than the one before.
C4_NoTriggerFiredTwice ==
    \A i, j \in 1..Len(fired) : i < j => fired[i] < fired[j]

\* the time of day of target s's trigger: target minus interval, mod 24 h
TriggerOfDay(s) == (TargetSeconds(s) - cfg.IntervalHours * 3600) % SecondsPerDay

\* t lies in the wraparound window from start to end (seconds since midnight);
\* a window whose ends coincide, the interval being a multiple of 24 h, is the
\* whole day
InWindow(t, start, end) ==
    \/ start < end /\ start <= t /\ t < end
    \/ start > end /\ (t >= start \/ t < end)
    \/ start = end

\* entries i # j of the target list, both valid times, with the trigger of i in
\* the window opened by the trigger of j
ConflictExists ==
    \E i, j \in 1..Len(cfg.TargetTimes) :
        /\ i # j
        /\ isValidTimeFormat(cfg.TargetTimes[i])
        /\ isValidTimeFormat(cfg.TargetTimes[j])
        /\ InWindow(TriggerOfDay(cfg.TargetTimes[i]),
                    TriggerOfDay(cfg.TargetTimes[j]),
                    (TriggerOfDay(cfg.TargetTimes[j]) + cfg.IntervalHours * 3600)
                        % SecondsPerDay)

\* C5: whenever two entries of the target list conflict, adjacent in sorted
\* order or not, validation fails and main never goes on to the platform.
C5_ConflictDetectionComplete ==
    (pc \notin {"load", "validate", "probe"} /\ ConflictExists) =>
        (pc = "fatal" /\ validateErr # Nil)

\* C5's case: interval 5 with 14:00 and 18:00 is rejected as a conflict
C5_Witness ==
    /\ pc = "fatal"
    /\ cfg.IntervalHours = 5
    /\ cfg.TargetTimes = <<T1400, T1800>>
    /\ validateErr.kind = "conflict"

\* HH:MM of the trigger of target s: target minus interval
TriggerText(s) == formatTime(toTime(parseTime(s)) - cfg.IntervalHours * 3600)

\* C6: a conflict error names the two target strings of the pair that
\* conflicts, each with its own trigger time (the named target minus the
\* interval) and the window of the second, in whatever order the targets are
\* listed.
C6_ConflictErrorNamesItsPair ==
    validateErr.kind = "conflict" =>
        /\ validateErr.firstTrigger = TriggerText(validateErr.first)
        /\ validateErr.secondTrigger = TriggerText(validateErr.second)
        /\ validateErr.windowStart = TriggerText(validateErr.second)

\* C7: isTimeInRange(t, start, end) is start <= t < end whenever start <= end
\* (empty for start = end) and t >= start or t < end whenever start > end, on
\* seconds since midnight.
C7_HalfOpenContainment ==
    (pc = "probe" /\ probe.done) =>
        probe.ret = (IF probe.start % SecondsPerDay <= probe.end % SecondsPerDay
                     THEN /\ probe.start % SecondsPerDay <= probe.t % SecondsPerDay
                          /\ probe.t % SecondsPerDay < probe.end % SecondsPerDay
                     ELSE \/ probe.t % SecondsPerDay >= probe.start % SecondsPerDay
                          \/ probe.t % SecondsPerDay < probe.end % SecondsPerDay)

\* C8: a cancellation raised while the loop waits for a trigger instant makes
\* Start return the context error; the action is not invoked for the pending
\* trigger, nor ever after Start has returned.
C8_CancelDuringWaitFiresNothing ==
    [][ /\ (pc = "waiting" /\ cancelled) =>
              /\ pc' = "returned"
              /\ startErr' = "context canceled"
              /\ fired' = fired
              /\ inFlight' = inFlight
        /\ pc = "returned" => (pc' = "returned" /\ fired' = fired /\ inFlight' = 0)
      ]_vars

\* C8's case: Start returned from the wait with the pending trigger still ahead
C8_Witness ==
    /\ pc = "returned"
    /\ exitPoint = "wait"
    /\ startErr = "context canceled"
    /\ nextTrigger.TriggerTime > clock
    /\ nextTrigger.TriggerTime \notin {fired[i] : i \in 1..Len(fired)}

\* C9: at most one Trigger invocation is in progress, and while one is (its
\* attempts and backoff sleeps included) the loop is blocked in the call: it
\* neither computes, waits for nor fires another trigger.
C9_OneInvocationAtATime ==
    /\ inFlight \in {0, 1}
    /\ inFlight = 1 <=> tpc \in {"attempt", "backoff"}
    /\ inFlight = 1 => pc = "inTrigger"

\* C9's case: the second invocation is in a backoff sleep between retries
C9_Witness ==
    /\ Len(fired) = 2
    /\ tpc = "backoff"
    /\ attempt >= 2
    /\ inFlight = 1

\* C10: a failed action does not end the loop: after Trigger has returned an
\* error Start computes the next trigger and goes on, and Start returns only
\* when the context is cancelled, with the context's error.
C10_FailureDoesNotEndLoop ==
    [][ /\ (pc = "inTrigger" /\ tpc = "returned" /\ trigErr # "nil") =>
              /\ pc' \in {"inTrigger", "top"}
              /\ pc' = "top" => calcNow' = clock
              /\ startErr' = "none"
        /\ (pc # "returned" /\ pc' = "returned") =>
              (cancelled /\ startErr' = "context canceled")
      ]_vars

\* C10's case: after a failed trigger the loop waits for the next one
C10_Witness ==
    /\ pc = "waiting"
    /\ trigErr = "trigger failed"
    /\ ~cancelled
    /\ Len(fired) >= 1
    /\ nextTrigger.TriggerTime > fired[Len(fired)]

\* what main's three startup checks return for the loaded configuration
StartupError ==
    OrElse(Validate(cfg),
           OrElse(NewPlatformErr(cfg.Platform),
                  ValidateConfig(NewAnthropicPlatform(cfg.Platform))))

\* C11: when Config.Validate, platform creation or the platform's config
\* validation returns an error, main stops before Scheduler.Start: the loop is
\* never entered, NextTrigger is never called and the action is never invoked.
C11_NoStartAfterStartupError ==
    (Loaded /\ StartupError # Nil) =>
        /\ pc \in {"validate", "platform", "fatal"}
        /\ fired = <<>>
        /\ inFlight = 0
        /\ tpc = "idle"
        /\ nextTrigger = NoTrigger
        /\ startErr = "none"

\* C11's case: Validate passed, the platform was refused, and main has aborted
C11_Witness ==
    /\ pc = "fatal"
    /\ Validate(cfg) = Nil
    /\ validateErr.kind = "api_key_required"
    /\ fired = <<>>

\* C12: once cancellation is raised, from whatever point of the loop (before
\* the first trigger, at the top, waiting, firing, in Trigger's retries), Start
\* eventually returns the context error.
C12_CancelledLoopTerminates ==
    cancelled ~> (pc = "returned" /\ startErr = "context canceled")

\* C12's case: cancelled while an invocation was running, the loop ended at the
\* first select after Trigger had used up its attempts
C12_Witness ==
    /\ pc = "returned"
    /\ exitPoint = "top"
    /\ startErr = "context canceled"
    /\ trigErr = "trigger failed"
    /\ Len(slept) >= 1

\* CalculateDailyTriggers has been applied to the arguments in probe
CalculatedDay == pc = "probe" /\ probe.fn = "CalculateDailyTriggers" /\ probe.done

\* the instant the formula gives for target string s on the date of probe.t:
\* (date at target time) - intervalHours + bufferSeconds
FormulaInstant(s) ==
    DateAt(CivilDay(probe.t, tz), 0, 0, tz) + TargetSeconds(s)
        - probe.intervalHours * 3600 + probe.bufferSeconds

\* C13: CalculateDailyTriggers returns, for a list of well-formed targets, one
\* trigger per entry of the list, each labelled with its target string and at
\* the instant (date at target) - intervalHours + bufferSeconds, not clamped to
\* the date, and the result is in ascending order of trigger instant; for
\* interval 5, buffer 60 and 09:00, 14:00, 19:00 these are 04:01, 09:01, 14:01.
C13_DailyTriggersByFormula ==
    (CalculatedDay /\ \A i \in 1..Len(probe.targetTimes) :
                          isValidTimeFormat(probe.targetTimes[i])) =>
        /\ Len(probe.ret) = Len(probe.targetTimes)
        /\ \A i \in 1..Len(probe.targetTimes) :
              Cardinality({k \in 1..Len(probe.ret) :
                              probe.ret[k].TargetTime = probe.targetTimes[i]})
              = Cardinality({j \in 1..Len(probe.targetTimes) :
                              probe.targetTimes[j] = probe.targetTimes[i]})
        /\ \A k \in 1..Len(probe.ret) :
              probe.ret[k].TriggerTime = FormulaInstant(probe.ret[k].TargetTime)
        /\ \A k \in 1..(Len(probe.ret) - 1) :
              probe.ret[k].TriggerTime <= probe.ret[k + 1].TriggerTime
        /\ (/\ probe.targetTimes = <<T1900, T0900, T1400>>
            /\ probe.intervalHours = 5
            /\ probe.bufferSeconds = 60) =>
              probe.ret = << [TargetTime  |-> T0900,
                              TriggerTime |-> DateAt(CivilDay(probe.t, tz), 4, 1, tz)],
                             [TargetTime  |-> T1400,
                              TriggerTime |-> DateAt(CivilDay(probe.t, tz), 9, 1, tz)],
                             [TargetTime  |-> T1900,
                              TriggerTime |-> DateAt(CivilDay(probe.t, tz), 14, 1, tz)] >>

\* C13's case: a trigger that rolls into the day before the given date, in a
\* result of several triggers
C13_Witness ==
    /\ CalculatedDay
    /\ probe.targetTimes = <<T0300, T1230>>
    /\ probe.intervalHours = 5
    /\ Len(probe.ret) = 2
    /\ probe.ret[1].TargetTime = T0300
    /\ CivilDay(probe.ret[1].TriggerTime, tz) = CivilDay(probe.t, tz) - 1
    /\ CivilDay(probe.ret[2].TriggerTime, tz) = CivilDay(probe.t, tz)

\* C14's "today": now brought back to 00:00 of its calendar date in the
\* process's zone (the code's today is Truncate24h(now))
LocalMidnight(now) == DateAt(CivilDay(now, tz), 0, 0, tz)

\* C14: the date NextTrigger works from is the local calendar date of now:
\* the reference date it returns is local midnight of now's date when a trigger
\* of that date is still ahead of now, and local midnight of the following
\* date otherwise.
C14_TodayIsLocalDate ==
    NextTriggerApplied =>
        probe.ret.nextDate =
            IF After(CalculateDailyTriggers(LocalMidnight(probe.t), probe.targetTimes,
                                            probe.intervalHours, probe.bufferSeconds, tz),
                     probe.t) # {}
            THEN LocalMidnight(probe.t)
            ELSE LocalMidnight(probe.t) + SecondsPerDay

\* C15: within one Trigger invocation the delay slept before each retry is
\* twice the delay slept before the retry preceding it.
C15_BackoffDoubles ==
    \A i \in 2..Len(slept) : slept[i] = 2 * slept[i - 1]

\* The claims' "valid HH:MM time": two fields of digits and nothing else, with
\* a ':' between them, the hour in 0..23 and the minute in 0..59 (the code's
\* test is isValidTimeFormat)
IsHHMM(s) ==
    \E p \in 2..(Len(s) - 1) :
        /\ s[p] = ":"
        /\ \A q \in 1..Len(s) : q # p => IsDigit(s[q])
        /\ DecimalValue(s, 1, p) <= 23
        /\ DecimalValue(s, p + 1, Len(s) + 1) <= 59

\* C16's conditions on which the scheduler section is to be refused (the
\* code's test is ValidateScheduler)
SchedulerInvalid ==
    \/ cfg.IntervalHours <= 0
    \/ cfg.IntervalHours > 168
    \/ Len(cfg.TargetTimes) = 0
    \/ \E i \in 1..Len(cfg.TargetTimes) : ~IsHHMM(cfg.TargetTimes[i])
    \/ cfg.SafetyBufferSeconds < 0
    \/ cfg.SafetyBufferSeconds > 3600
    \/ ConflictExists

\* C16: ValidateScheduler returns an error exactly when the interval is not in
\* 1..168, the target list is empty, a target is not a valid HH:MM time, the
\* buffer is not in 0..3600, or two targets conflict.
C16_ValidateSchedulerExactly ==
    Loaded => (ValidateScheduler(cfg) # Nil <=> SchedulerInvalid)

\* the target list holds the same time of day at two places
HasDuplicateTarget ==
    \E i, j \in 1..Len(cfg.TargetTimes) :
        i # j /\ TargetSeconds(cfg.TargetTimes[i]) = TargetSeconds(cfg.TargetTimes[j])

\* C17: a list of valid targets with the same time of day twice is refused as
\* a conflict (when interval and buffer are in range), whatever the interval,
\* multiples of 24 included, and main stops there.
C17_DuplicateTargetsRejected ==
    (/\ pc \notin {"load", "validate", "probe"}
     /\ cfg.IntervalHours \in 1..168
     /\ cfg.SafetyBufferSeconds \in 0..3600
     /\ \A i \in 1..Len(cfg.TargetTimes) : IsHHMM(cfg.TargetTimes[i])
     /\ HasDuplicateTarget) =>
        (pc = "fatal" /\ validateErr.kind = "conflict")

\* C17's case: 09:00 twice with an interval of 24 hours
C17_Witness ==
    /\ pc = "fatal"
    /\ cfg.IntervalHours = 24
    /\ cfg.TargetTimes = <<T0900, T0900>>
    /\ validateErr.kind = "conflict"
    /\ validateErr.first = T0900
    /\ validateErr.second = T0900

\* validateTargetTimesConflict has been applied to both lists in probe
ConflictValidated ==
    pc = "probe" /\ probe.fn = "validateTargetTimesConflict" /\ probe.done

\* C18: validateTargetTimesConflict returns an error for a permutation of a
\* target list exactly when it returns one for the list itself.
C18_VerdictOrderIndependent ==
    ConflictValidated => (probe.ret = Nil <=> probe.retPermuted = Nil)

\* C18's case: a list and a different ordering of it are both refused, with
\* different messages
C18_Witness ==
    /\ ConflictValidated
    /\ probe.targetTimes = <<T1400, T0300, T1800>>
    /\ probe.permuted = <<T1800, T0300, T1400>>
    /\ probe.ret.kind = "conflict"
    /\ probe.retPermuted.kind = "conflict"
    /\ probe.ret # probe.retPermuted

\* C19 as stated: once cancellation is raised the loop neither enters a wait
\* nor invokes the action again.
C19_AsStated ==
    [][ cancelled => /\ (pc' = "waiting" => pc = "waiting")
                     /\ fired' = fired ]_vars

\* C19, amended: a round that reaches the first select with cancellation raised
\* returns the context error there; with cancellation raised the loop starts
\* no round and blocks in no wait, and a loop already blocked returns without
\* firing. The action is invoked only by the round that was past the first
\* select when the signal came: at its trigger instant, reached already or
\* found expired as the second select is entered.
C19_NoNewRoundAfterCancel ==
    [][ cancelled => /\ pc = "top" => (pc' = "returned" /\ startErr' = "context canceled")
                     /\ pc' = "select" => pc = "select"
                     /\ pc' = "waiting" => pc = "waiting"
                     /\ pc = "waiting" => pc' \in {"waiting", "returned"}
                     /\ pc' = "fire" => pc \in {"fire", "select"}
                     /\ fired' # fired =>
                           (pc = "fire" /\ clock >= nextTrigger.TriggerTime) ]_vars

\* C19's case: the signal came after a successful invocation and Start returned
\* at the first select of the next round
C19_Witness ==
    /\ pc = "returned"
    /\ exitPoint = "top"
    /\ startErr = "context canceled"
    /\ trigErr = "nil"
    /\ Len(fired) >= 1

\* The latest Trigger invocation has returned
TriggerReturned == trigErr # "none"

\* C20: one Trigger invocation makes its attempts one after another, each retry
\* after its own backoff; it makes at most maxRetries+1 attempts and none after
\* a successful one; it returns nil exactly when an attempt succeeded, and it
\* returns the error only when maxRetries+1 attempts have failed.
C20_TriggerAttempts ==
    /\ inFlight <= 1
    /\ tpc = "attempt" => Len(slept) = Len(tried)
    /\ tpc = "backoff" => (Len(slept) = Len(tried) - 1 /\ Len(tried) <= maxRetries)
    /\ \A i \in 1..(Len(tried) - 1) : tried[i] = "error"
    /\ TriggerReturned =>
          /\ Len(tried) <= maxRetries + 1
          /\ trigErr = "nil" <=> \E i \in 1..Len(tried) : tried[i] = "nil"
          /\ trigErr # "nil" =>
                /\ Len(tried) = maxRetries + 1
                /\ \A i \in 1..Len(tried) : tried[i] = "error"

\* The scheduler section of a configuration holding the arguments in probe
ProbeScheduler ==
    [IntervalHours       |-> probe.intervalHours,
     TargetTimes         |-> probe.targetTimes,
     SafetyBufferSeconds |-> probe.bufferSeconds]

\* C21: for arguments that ValidateScheduler accepts, NextTrigger does not
\* return its fallback: the trigger returned carries one of the configured
\* target times, never the empty target time of the value now + 24h.
C21_NoFallbackWhenValidated ==
    NextTriggerApplied /\ ValidateScheduler(ProbeScheduler) = Nil =>
        /\ probe.ret.trigger.TargetTime # <<>>
        /\ \E i \in 1..Len(probe.targetTimes) :
              probe.ret.trigger.TargetTime = probe.targetTimes[i]

\* NextTrigger, on accepted arguments, found no trigger of today after now and
\* returned the first trigger of tomorrow
C21_Witness ==
    /\ NextTriggerApplied
    /\ ValidateScheduler(ProbeScheduler) = Nil
    /\ probe.ret.nextDate = Truncate24h(probe.t) + SecondsPerDay
    /\ probe.ret.trigger.TargetTime = T0300

\* the string in probe has been parsed, converted and formatted
Formatted == pc = "probe" /\ probe.fn = "formatTime" /\ probe.done

\* C22's strings: a valid time of day written with two digits for the hour
\* and two for the minute
IsPaddedHHMM(text) == Len(text) = 5 /\ text[3] = ":" /\ IsHHMM(text)

\* C22: parsing a valid, two-digit zero-padded HH:MM string and formatting the
\* result gives the same string.
C22_ParseFormatRoundTrip ==
    Formatted /\ IsPaddedHHMM(probe.text) => probe.ret = probe.text

\* "09:05", with a padded hour and a padded minute, has made the round trip
C22_Witness ==
    /\ Formatted
    /\ probe.text = <<"0", "9", ":", "0", "5">>
    /\ probe.ret = <<"0", "9", ":", "0", "5">>

\* C23: the loop never fires early: each invocation of the action is made for
\* the trigger the loop computed last, at a time that is not before that
\* trigger's instant.
C23_NeverFiresEarly ==
    [][Len(fired') > Len(fired) =>
          /\ fired' = Append(fired, nextTrigger.TriggerTime)
          /\ clock >= nextTrigger.TriggerTime]_vars

\* The action has just been invoked, after a wait, for a trigger that was
\* still ahead when it was computed
C23_Witness ==
    /\ pc = "inTrigger"
    /\ tpc = "attempt"
    /\ tried = <<>>
    /\ Len(fired) >= 1
    /\ fired[Len(fired)] = nextTrigger.TriggerTime
    /\ calcNow < nextTrigger.TriggerTime
    /\ clock >= nextTrigger.TriggerTime

\* C24: validation and trigger calculation leave the configuration as it was
\* loaded: after any sequence of ValidateScheduler, CalculateDailyTriggers and
\* NextTrigger calls the array of the target list holds the same entries in
\* the same order, and the interval and the safety buffer have the same
\* values; what the calls sort are arrays of their own.
C24_ConfigurationUnchanged ==
    pc = "probe" /\ probe.fn = "frame" =>
        /\ probe.arrays[TargetTimesArray] = raw.TargetTimes
        /\ cfg.TargetTimes = raw.TargetTimes
        /\ cfg.IntervalHours = raw.IntervalHours
        /\ cfg.SafetyBufferSeconds = Load(raw).SafetyBufferSeconds
        /\ cfg = Load(raw)
        /\ (probe.last = "ValidateScheduler" /\ ReachesConflictCheck(cfg)) =>
              /\ Len(probe.arrays[Len(probe.arrays)]) = Len(raw.TargetTimes)
              /\ \A i, j \in 1..Len(raw.TargetTimes) :
                    i < j => ~TimeLess(probe.arrays[Len(probe.arrays)][j],
                                       probe.arrays[Len(probe.arrays)][i])

\* The second of two calls was ValidateScheduler, on a target list that is not
\* in order of time: it accepted the configuration, its parsedTimes array is in
\* order and the list's own array is as it was
C24_Witness ==
    /\ pc = "probe"
    /\ probe.fn = "frame"
    /\ probe.calls = 2
    /\ probe.last = "ValidateScheduler"
    /\ probe.ret = Nil
    /\ raw.TargetTimes = <<T1900, T0900, T1400>>
    /\ probe.arrays[Len(probe.arrays)] =
           <<[hour |-> 9, min |-> 0], [hour |-> 14, min |-> 0], [hour |-> 19, min |-> 0]>>
    /\ probe.arrays[TargetTimesArray] = <<T1900, T0900, T1400>>
    /\ cfg.TargetTimes = <<T1900, T0900, T1400>>

\* C25: after Load the safety buffer in effect is never 0: a buffer that is
\* absent from the file or written as 0 becomes 60 seconds, every other buffer
\* is the one written, and the interval, the targets and the platform's type
\* and URL are the ones written.
C25_BufferNeverZero ==
    Loaded =>
        /\ cfg.SafetyBufferSeconds # 0
        /\ raw.SafetyBufferSeconds = 0 => cfg.SafetyBufferSeconds = 60
        /\ raw.SafetyBufferSeconds # 0 =>
              cfg.SafetyBufferSeconds = raw.SafetyBufferSeconds
        /\ cfg.IntervalHours = raw.IntervalHours
        /\ cfg.TargetTimes = raw.TargetTimes
        /\ cfg.Platform.Type = raw.Platform.Type
        /\ cfg.Platform.BaseURL = raw.Platform.BaseURL

\* The scheduler waits for a trigger it computed with the buffer of 60 seconds
\* that Load put in the place of a 0
C25_Witness ==
    /\ pc = "waiting"
    /\ raw.SafetyBufferSeconds = 0
    /\ cfg.SafetyBufferSeconds = 60
    /\ ClockSecond(nextTrigger.TriggerTime, tz) = 0
    /\ ClockMinute(nextTrigger.TriggerTime, tz) = 1

=============================================================================
